---- MODULE Spec2Model ----
(***************************************************************************)
(* Model of the multi-source collection orchestration engine of the        *)
(* data-collection backend: the deduplication of package records           *)
(* (maliciousPackageService.deduplicatePackages), the retrying call        *)
(* executor (apiCallWithRetry), the sliding-window RateLimiter and the     *)
(* DataCollectionOrchestrator (collectPackageData, batchCollectPackages).  *)
(* Each component has its own specification over its own variables; the    *)
(* variables of the other components stay at their initial value.          *)
(***************************************************************************)
EXTENDS Integers, Sequences, FiniteSets, TLC

VARIABLES
    \* deduplicatePackages: the call under test and a second call compared with it
    dInput,     \* the record list given to the first call
    dOut,       \* what the first call returned (Array.from(map.values()))
    dAltInput,  \* the record list given to the second call
    dAlt,       \* what the second call returned
    dPhase,     \* "input" | "merged" | "remerged" | "reordered"
    \* apiCallWithRetry: one call
    rOptions,      \* [maxRetries, baseDelay, maxDelay] as destructured from options
    rAttempt,      \* the loop variable attempt
    rPc,           \* "entry" | "calling" | "sleeping" | "returned" | "raised"
    rInvocations,  \* how many times apiCall() has been invoked
    rErrors,       \* the errors apiCall() has thrown, in order
    rDelays,       \* the finalDelay of every sleep(finalDelay), in order
    rResult,       \* the value returned or the error raised, "pending" before
    \* one RateLimiter shared by several makeRequest callers
    lConfig,    \* [requestsPerWindow, windowMs] as given to the constructor
    lRequests,  \* this.requests: the recorded timestamps
    lNow,       \* Date.now()
    lPc,        \* per caller: "idle" | "admitted" | "sleeping" | "calling" | "done"
    lWakeAt,    \* per sleeping caller: when its sleep(waitTime) timer is due
    lMicro,     \* the microtask queue: callers whose `await` continuation is queued
    \* DataCollectionOrchestrator: collectPackageData and batchCollectPackages
    cOptions,     \* the include-options after destructuring with their defaults
    cDb,          \* whether this.db is set
    cRegistry,    \* what the registry holds for a package: [repository, tarball]
    cMetaFails,   \* the invocations whose metadata fetch is going to fail
    cInv,         \* per collectPackageData invocation: its progress and result
    cEnv,         \* process.env.COLLECT_STATIC_ANALYSIS
    cSignal,      \* the cancellation signal of the caller: "none" | "pending" | "aborted"
    cSettled,     \* the invocations that have settled, in the order they settled
    bList,        \* packageList
    bConcurrency, \* the concurrency option
    bI,           \* the loop variable i
    bBatch,       \* the positions in packageList of the current batch
    bPc,          \* "entry" | "loop" | "awaiting" | "returned" | "raised"
    bResults,     \* results
    bErrors,      \* errors
    bReturn,      \* the value batchCollectPackages returned
    bFirst,       \* an earlier call with the same packageList and its return
    \* dependenciesService.buildDependencyTree: one call
    tArgs,      \* [packageName, version, maxDepth] as given by the caller
    tRegistry,  \* the npm registry: [deps, unfetchable]
    tPc,        \* "entry" | "returned"
    tOut,       \* the array buildDependencyTree returned
    \* one RequestQueue
    qQueue,       \* this.queue: the requests waiting, by their number
    qProcessing,  \* this.processing
    qLoops,       \* how many processQueue calls are in their loop
    qInFlight,    \* the requests given to rateLimiter.makeRequest and not settled
    qPriority,    \* per request, in the order of the enqueue calls: its priority
    qOutcome,     \* per request: how its apiCall ended, "none" before
    qPromise,     \* per request: the state of the promise enqueue returned
    qSettles,     \* per request: how many times resolve or reject was called
    qStartedBy    \* per request: "none" | "enqueue" | "loop", the code that shifted it

dedupVars == <<dInput, dOut, dAltInput, dAlt, dPhase>>

retryVars == <<rOptions, rAttempt, rPc, rInvocations, rErrors, rDelays, rResult>>

limiterVars == <<lConfig, lRequests, lNow, lPc, lWakeAt, lMicro>>

collectVars == <<cOptions, cDb, cRegistry, cMetaFails, cInv, cEnv, cSignal, cSettled>>

batchVars == <<bList, bConcurrency, bI, bBatch, bPc, bResults, bErrors, bReturn, bFirst>>

treeVars == <<tArgs, tRegistry, tPc, tOut>>

queueVars == <<qQueue, qProcessing, qLoops, qInFlight, qPriority, qOutcome, qPromise, qSettles,
               qStartedBy>>

\* What a collectPackageData invocation is given and never assigns.
collectInputs == <<cOptions, cDb, cRegistry, cMetaFails, cEnv>>

vars == <<dedupVars, retryVars, limiterVars, collectVars, batchVars, treeVars, queueVars>>

\* The variables a component leaves alone.
notDedup == <<retryVars, limiterVars, collectVars, batchVars, treeVars, queueVars>>

notRetry == <<dedupVars, limiterVars, collectVars, batchVars, treeVars, queueVars>>

notLimiter == <<dedupVars, retryVars, collectVars, batchVars, treeVars, queueVars>>

notOrchestrator == <<dedupVars, retryVars, limiterVars, treeVars, queueVars>>

notLimiterNorRetry == <<dedupVars, collectVars, batchVars, treeVars, queueVars>>

notTree == <<dedupVars, retryVars, limiterVars, collectVars, batchVars, queueVars>>

notQueue == <<dedupVars, retryVars, limiterVars, collectVars, batchVars, treeVars>>

(***************************************************************************)
(* Generic helpers                                                         *)
(***************************************************************************)
Range(s) == {s[i] : i \in 1..Len(s)}

SeqsUpTo(S, n) == UNION {[1..k -> S] : k \in 0..n}

\* Array.prototype.includes
Includes(s, x) == \E i \in 1..Len(s) : s[i] = x

(***************************************************************************)
(* The components at rest: the value of a component's variables in the     *)
(* specifications of the other components.                                 *)
(***************************************************************************)
\* The defaults of the options of apiCallWithRetry.
DefaultMaxRetries == 3
DefaultBaseDelay == 1000
DefaultMaxDelay == 30000

\* No deduplicatePackages call is under way.
DedupIdle ==
    /\ dInput = <<>>
    /\ dOut = <<>>
    /\ dAltInput = <<>>
    /\ dAlt = <<>>
    /\ dPhase = "idle"

\* No apiCallWithRetry call is under way.
RetryIdle ==
    /\ rOptions = [maxRetries |-> DefaultMaxRetries, baseDelay |-> DefaultBaseDelay,
                   maxDelay |-> DefaultMaxDelay]
    /\ rAttempt = 0
    /\ rPc = "idle"
    /\ rInvocations = 0
    /\ rErrors = <<>>
    /\ rDelays = <<>>
    /\ rResult = "pending"

\* No buildDependencyTree call is under way.
TreeIdle ==
    /\ tArgs = [packageName |-> "", version |-> "", maxDepth |-> 0]
    /\ tRegistry = [deps |-> <<>>, unfetchable |-> {}]
    /\ tPc = "idle"
    /\ tOut = <<>>

\* No RequestQueue is in use.
QueueIdle ==
    /\ qQueue = <<>>
    /\ qProcessing = FALSE
    /\ qLoops = 0
    /\ qInFlight = {}
    /\ qPriority = <<>>
    /\ qOutcome = <<>>
    /\ qPromise = <<>>
    /\ qSettles = <<>>
    /\ qStartedBy = <<>>

\* No RateLimiter is in use.
LimiterIdle ==
    /\ lConfig = [requestsPerWindow |-> 0, windowMs |-> 0]
    /\ lRequests = <<>>
    /\ lNow = 0
    /\ lPc = <<>>
    /\ lWakeAt = <<>>
    /\ lMicro = <<>>

\* No batchCollectPackages call has returned yet.
NoRun == [concurrency |-> 0, return |-> <<>>, outcomes |-> <<>>]

\* The orchestrator is not in use.
OrchestratorIdle ==
    /\ cEnv = "unset"
    /\ cSignal = "none"
    /\ cSettled = <<>>
    /\ bFirst = NoRun
    /\ cOptions = <<>>
    /\ cDb = FALSE
    /\ cRegistry = <<>>
    /\ cMetaFails = {}
    /\ cInv = <<>>
    /\ bList = <<>>
    /\ bConcurrency = 0
    /\ bI = 0
    /\ bBatch = <<>>
    /\ bPc = "idle"
    /\ bResults = <<>>
    /\ bErrors = <<>>
    /\ bReturn = <<>>

(***************************************************************************)
(* apiCallWithRetry                                                        *)
(***************************************************************************)
\* Largest maxRetries option tried.
MaxRetriesTried == 4

\* The options a caller passes: the default delays, and a larger baseDelay
\* with which the cap by maxDelay is met at the third attempt.
RetryOptions ==
    [maxRetries : 0..MaxRetriesTried,
     baseDelay : {DefaultBaseDelay, 8 * DefaultBaseDelay},
     maxDelay : {DefaultMaxDelay}]

\* parseInt's result for a string that does not start with a number.
NaN == -1

Digits == {"0", "1", "2", "3", "4", "5", "6", "7", "8", "9"}

DigitValue(c) ==
    CASE c = "0" -> 0 [] c = "1" -> 1 [] c = "2" -> 2 [] c = "3" -> 3 [] c = "4" -> 4
      [] c = "5" -> 5 [] c = "6" -> 6 [] c = "7" -> 7 [] c = "8" -> 8 [] c = "9" -> 9

\* The number of leading decimal digits of a string (a sequence of characters).
RECURSIVE LeadingDigits(_)
LeadingDigits(str) ==
    IF str # <<>> /\ Head(str) \in Digits THEN 1 + LeadingDigits(Tail(str)) ELSE 0

RECURSIVE DecimalValue(_, _)
DecimalValue(str, n) ==
    IF n = 0 THEN 0 ELSE 10 * DecimalValue(str, n - 1) + DigitValue(str[n])

\* parseInt(str): the leading decimal digits, NaN when there are none.
ParseInt(str) ==
    IF LeadingDigits(str) = 0 THEN NaN ELSE DecimalValue(str, LeadingDigits(str))

\* x * 1000 in floating point: NaN stays NaN.
TimesThousand(x) == IF x = NaN THEN NaN ELSE x * 1000

\* Values of the retry-after header; <<>> is the header being absent
\* (undefined and "" are both falsy).
RetryAfterValues == {<<>>, <<"0">>, <<"6", "0">>, <<"W", "e", "d">>}

\* error.response?.status || error.status of the errors apiCall() throws;
\* 0 stands for an error without a status (no response at all).
ErrorStatuses == {0, 404, 429, 503}

\* An error thrown by apiCall(): only an error with a response has headers.
CallErrors ==
    {e \in [status : ErrorStatuses, retryAfter : RetryAfterValues] :
        e.status = 0 => e.retryAfter = <<>>}

\* Mutation of shouldRetry: every 4xx status is retried as well.
shouldRetryClientErrors(error) == error.status >= 400 /\ error.status < 600

\* The default shouldRetry.
shouldRetry(error) ==
    error.status = 429 \/ (error.status >= 500 /\ error.status < 600)

RECURSIVE Pow2(_)
Pow2(n) == IF n = 0 THEN 1 ELSE 2 * Pow2(n - 1)

Min(a, b) == IF a <= b THEN a ELSE b

\* Mutation of BackoffDelay: the cap by maxDelay is missing.
BackoffDelayUncapped(attempt, options) == options.baseDelay * Pow2(attempt - 1)

\* const delay = Math.min(baseDelay * Math.pow(2, attempt - 1), maxDelay)
BackoffDelay(attempt, options) ==
    Min(options.baseDelay * Pow2(attempt - 1), options.maxDelay)

\* const finalDelay = retryAfter ? parseInt(retryAfter) * 1000 : delay
FinalDelay(error, attempt, options) ==
    IF error.retryAfter # <<>>
    THEN TimesThousand(ParseInt(error.retryAfter))
    ELSE BackoffDelay(attempt, options)

\* Mutation of GivesUp: the test of the attempts left is attempt > maxRetries.
GivesUpLate(error, attempt, options) ==
    ~shouldRetry(error) \/ attempt > options.maxRetries

\* if (!shouldRetry(error) || attempt >= maxRetries) throw error
GivesUp(error, attempt, options) ==
    ~shouldRetry(error) \/ attempt >= options.maxRetries

RetryInit ==
    /\ rOptions \in RetryOptions
    /\ rAttempt = 1
    /\ rPc = "entry"
    /\ rInvocations = 0
    /\ rErrors = <<>>
    /\ rDelays = <<>>
    /\ rResult = "pending"
    /\ DedupIdle
    /\ TreeIdle
    /\ QueueIdle
    /\ LimiterIdle
    /\ OrchestratorIdle

\* for (let attempt = 1; attempt <= maxRetries; ...): the first test of the
\* loop condition; with maxRetries < 1 the body never runs and
\* `throw lastError` raises undefined.
RetryEnter ==
    /\ rPc = "entry"
    /\ IF rAttempt <= rOptions.maxRetries
       THEN rPc' = "calling" /\ rResult' = rResult
       ELSE rPc' = "raised" /\ rResult' = "undefined"
    /\ UNCHANGED <<rOptions, rAttempt, rInvocations, rErrors, rDelays>>
    /\ UNCHANGED notRetry

\* return await apiCall(): the call fulfils.
RetryCallSucceeds ==
    /\ rPc = "calling"
    /\ rInvocations' = rInvocations + 1
    /\ rPc' = "returned"
    /\ rResult' = "value"
    /\ UNCHANGED <<rOptions, rAttempt, rErrors, rDelays>>
    /\ UNCHANGED notRetry

\* await apiCall() rejects: the catch block, up to the throw or the sleep.
RetryCallFails ==
    /\ rPc = "calling"
    /\ \E error \in CallErrors :
        /\ rInvocations' = rInvocations + 1
        /\ rErrors' = Append(rErrors, error)
        /\ IF GivesUp(error, rAttempt, rOptions)
           THEN /\ rPc' = "raised"
                /\ rResult' = error
                /\ rDelays' = rDelays
           ELSE /\ rPc' = "sleeping"
                /\ rResult' = rResult
                /\ rDelays' = Append(rDelays, FinalDelay(error, rAttempt, rOptions))
    /\ UNCHANGED <<rOptions, rAttempt>>
    /\ UNCHANGED notRetry

\* The timer of sleep(finalDelay) fires: attempt++ and the loop condition,
\* which holds because the catch block slept only with attempt < maxRetries.
RetryWake ==
    /\ rPc = "sleeping"
    /\ rAttempt' = rAttempt + 1
    /\ IF rAttempt + 1 <= rOptions.maxRetries
       THEN rPc' = "calling" /\ rResult' = rResult
       ELSE rPc' = "raised" /\ rResult' = rErrors[Len(rErrors)]
    /\ UNCHANGED <<rOptions, rInvocations, rErrors, rDelays>>
    /\ UNCHANGED notRetry

RetryNext == RetryEnter \/ RetryCallSucceeds \/ RetryCallFails \/ RetryWake

SpecRetry == RetryInit /\ [][RetryNext]_vars

(***************************************************************************)
(* Properties of apiCallWithRetry                                          *)
(***************************************************************************)
\* a <= b as JavaScript compares numbers: false when either side is NaN.
Leq(a, b) == a # NaN /\ b # NaN /\ a <= b

NonDecreasing(s) == \A i \in 1..(Len(s) - 1) : Leq(s[i], s[i + 1])

AllRetryable(errors) == \A i \in 1..Len(errors) : shouldRetry(errors[i])

NoRetryAfter(errors) == \A i \in 1..Len(errors) : errors[i].retryAfter = <<>>

\* What C5 says of a call apart from the size of its delays: the call is not
\* given up while every failure was retryable and fewer than maxRetries
\* invocations were made, and a call that returns after k failures made k + 1
\* invocations and k sleeps and returns the value of the last invocation.
RetriesUntilSuccess ==
    /\ rPc = "raised" /\ AllRetryable(rErrors) => Len(rErrors) >= rOptions.maxRetries
    /\ rPc = "returned" =>
        /\ AllRetryable(rErrors)
        /\ Len(rErrors) < rOptions.maxRetries
        /\ rInvocations = Len(rErrors) + 1
        /\ Len(rDelays) = Len(rErrors)
        /\ rResult = "value"

DelaysBounded ==
    /\ NonDecreasing(rDelays)
    /\ \A i \in 1..Len(rDelays) : Leq(rDelays[i], rOptions.maxDelay)

\* C5 (as claimed): k retryable failures, k < maxRetries, then a success:
\* the value is returned after k + 1 invocations and the delays slept are
\* non-decreasing and at most maxDelay, Retry-After or not.
C5_AsClaimed ==
    /\ RetriesUntilSuccess
    /\ rPc = "returned" => DelaysBounded

\* C5 (amended): the same, the bound on the delays being claimed for the
\* failure sequences in which no failure carries a Retry-After header.
C5_RetriesThenSuccess ==
    /\ RetriesUntilSuccess
    /\ rPc = "returned" /\ NoRetryAfter(rErrors) => DelaysBounded

\* C5 witness: three retryable failures without Retry-After, then a success,
\* with delays that grow up to maxDelay.
C5_Witness ==
    /\ rPc = "returned"
    /\ Len(rErrors) = 3
    /\ NoRetryAfter(rErrors)
    /\ rInvocations = 4
    /\ rDelays[1] < rDelays[2]
    /\ rDelays[3] = rOptions.maxDelay

Last(s) == s[Len(s)]

\* C21: while every invocation fails with a retryable error, the n-th
\* invocation is preceded by n - 1 sleeps; the call is given up after exactly
\* maxRetries invocations (maxRetries >= 1) and maxRetries - 1 sleeps, none
\* after the last invocation, and raises the error of the last invocation.
C21_ExhaustionRaisesLastError ==
    AllRetryable(rErrors) /\ rOptions.maxRetries >= 1 =>
        /\ rInvocations = Len(rErrors) + (IF rPc = "returned" THEN 1 ELSE 0)
        /\ rInvocations <= rOptions.maxRetries
        /\ rPc = "calling" => Len(rDelays) = rInvocations
        /\ rPc = "sleeping" => Len(rDelays) = rInvocations /\ rInvocations < rOptions.maxRetries
        /\ rPc = "raised" =>
            /\ rInvocations = rOptions.maxRetries
            /\ Len(rDelays) = rOptions.maxRetries - 1
            /\ rResult = Last(rErrors)

\* C21 witness: maxRetries = 3, three retryable failures of which the last
\* differs from the first two, two sleeps, and the last error is raised.
C21_Witness ==
    /\ rPc = "raised"
    /\ rOptions.maxRetries = 3
    /\ rInvocations = 3
    /\ AllRetryable(rErrors)
    /\ rErrors[1] = rErrors[2] /\ rErrors[3] # rErrors[1]
    /\ Len(rDelays) = 2
    /\ rResult = rErrors[3]

\* A status that is neither 429 nor 5xx.
NotRetryableStatus(status) == status # 429 /\ ~(status >= 500 /\ status <= 599)

\* C22: an invocation that fails with a status neither 429 nor 5xx ends the
\* call at once: that error is raised, no sleep follows it and the callable
\* is not invoked again, whatever attempts remain.
C22_NonRetryableRaisedAtOnce ==
    rErrors # <<>> /\ NotRetryableStatus(Last(rErrors).status) =>
        /\ rPc = "raised"
        /\ rResult = Last(rErrors)
        /\ rInvocations = Len(rErrors)
        /\ Len(rDelays) = Len(rErrors) - 1

\* C22 witness: with maxRetries = 4 the first invocation fails with 404 and
\* the call has raised it after that one invocation, without a sleep.
C22_Witness ==
    /\ rPc = "raised"
    /\ rOptions.maxRetries = 4
    /\ rInvocations = 1
    /\ rErrors[1].status = 404
    /\ rResult = rErrors[1]
    /\ rDelays = <<>>

\* The delay in milliseconds a Retry-After value asks for is a number.
IsMilliseconds(x) == x # NaN /\ x >= 0

\* C23 (as claimed): the delay slept after the failed attempt a is
\* min(baseDelay * 2^(a-1), maxDelay) when the failure carries no Retry-After
\* value, and the number of seconds the value asks for, times 1000, when it
\* carries one.
C23_DelayFollowsAttemptAndHint ==
    \A a \in 1..Len(rDelays) :
        IF rErrors[a].retryAfter = <<>>
        THEN rDelays[a] = Min(rOptions.baseDelay * Pow2(a - 1), rOptions.maxDelay)
        ELSE /\ IsMilliseconds(rDelays[a])
             /\ LeadingDigits(rErrors[a].retryAfter) = Len(rErrors[a].retryAfter) =>
                    rDelays[a] = 1000 * DecimalValue(rErrors[a].retryAfter,
                                                     Len(rErrors[a].retryAfter))

(***************************************************************************)
(* RateLimiter                                                             *)
(***************************************************************************)
\* How many callers share the limiter, the largest requestsPerWindow and
\* windowMs given to the constructor, and the last value of the clock.
NumCallers == 2
MaxRequestsPerWindow == 2
MaxWindowMs == 2
MaxNow == 4

Callers == 1..NumCallers

LimiterConfigs ==
    [requestsPerWindow : 1..MaxRequestsPerWindow, windowMs : 1..MaxWindowMs]

\* Mutation of Pruned: the timestamps that have left the window are never
\* removed.
PrunedNothing(requests, now, config) == requests

\* this.requests.filter(timestamp => now - timestamp < this.windowMs)
Pruned(requests, now, config) ==
    SelectSeq(requests, LAMBDA timestamp : now - timestamp < config.windowMs)

\* Mutation of CanMakeRequest: one request per window whatever
\* requestsPerWindow is.
CanMakeRequestOneAtATime(requests, now, config) ==
    Len(Pruned(requests, now, config)) < 1

\* canMakeRequest(), its return value; it also assigns Pruned to this.requests.
CanMakeRequest(requests, now, config) ==
    Len(Pruned(requests, now, config)) < config.requestsPerWindow

\* Math.min(...this.requests)
Oldest(requests) ==
    CHOOSE t \in Range(requests) : \A u \in Range(requests) : t <= u

Max(a, b) == IF a >= b THEN a ELSE b

\* Mutation of GetTimeUntilNextRequest: a whole window from now, whenever the
\* oldest request was made.
GetTimeUntilNextRequestFromNow(requests, now, config) ==
    IF CanMakeRequest(requests, now, config)
    THEN 0
    ELSE config.windowMs

\* getTimeUntilNextRequest(), called when canMakeRequest() has just returned
\* false; the clock does not move inside one synchronous run.
GetTimeUntilNextRequest(requests, now, config) ==
    IF CanMakeRequest(requests, now, config)
    THEN 0
    ELSE Max(0, Oldest(Pruned(requests, now, config)) + config.windowMs - now)

LimiterInit ==
    /\ lConfig \in LimiterConfigs
    /\ lRequests = <<>>
    /\ lNow = 0
    /\ lPc = [c \in Callers |-> "idle"]
    /\ lWakeAt = [c \in Callers |-> 0]
    /\ lMicro = <<>>
    /\ DedupIdle
    /\ TreeIdle
    /\ QueueIdle
    /\ RetryIdle
    /\ OrchestratorIdle

\* One pass of waitUntilCanRequest's loop for caller c, from the test of
\* canMakeRequest() to the next suspension: either the loop ends, the async
\* function returns and makeRequest's `await` continuation is queued as a
\* microtask, or the caller suspends in sleep(waitTime).
WaitLoopPass(c) ==
    /\ lRequests' = Pruned(lRequests, lNow, lConfig)
    /\ IF CanMakeRequest(lRequests, lNow, lConfig)
       THEN /\ lPc' = [lPc EXCEPT ![c] = "admitted"]
            /\ lMicro' = Append(lMicro, c)
            /\ lWakeAt' = lWakeAt
       ELSE /\ GetTimeUntilNextRequest(lRequests, lNow, lConfig) > 0
            /\ lPc' = [lPc EXCEPT ![c] = "sleeping"]
            /\ lWakeAt' = [lWakeAt EXCEPT
                    ![c] = lNow + GetTimeUntilNextRequest(lRequests, lNow, lConfig)]
            /\ lMicro' = lMicro

\* makeRequest(apiCall) is called: `await this.waitUntilCanRequest()` runs the
\* loop synchronously up to its first suspension. The calling code may be in
\* the same synchronous run as another caller's call (batch.map).
LimiterCall(c) ==
    /\ lPc[c] = "idle"
    /\ WaitLoopPass(c)
    /\ UNCHANGED <<lConfig, lNow>>
    /\ UNCHANGED notLimiter

\* The microtask at the head of the queue runs: makeRequest resumes after
\* `await this.waitUntilCanRequest()`, records the request and starts apiCall().
RecordRequest(c) ==
    /\ lMicro # <<>>
    /\ Head(lMicro) = c
    /\ lPc[c] = "admitted"
    /\ lMicro' = Tail(lMicro)
    /\ lRequests' = Append(lRequests, lNow)
    /\ lPc' = [lPc EXCEPT ![c] = "calling"]
    /\ UNCHANGED <<lConfig, lNow, lWakeAt>>

LimiterRecord(c) ==
    /\ RecordRequest(c)
    /\ UNCHANGED notLimiter

\* The timer of sleep(waitTime) fires (a macrotask: the microtask queue is
\* empty) and the loop of waitUntilCanRequest tests canMakeRequest() again.
LimiterWake(c) ==
    /\ lPc[c] = "sleeping"
    /\ lMicro = <<>>
    /\ lNow >= lWakeAt[c]
    /\ WaitLoopPass(c)
    /\ UNCHANGED <<lConfig, lNow>>
    /\ UNCHANGED notLimiter

\* apiCall() settles and makeRequest returns or raises its outcome.
LimiterCallSettles(c) ==
    /\ lPc[c] = "calling"
    /\ lMicro = <<>>
    /\ lPc' = [lPc EXCEPT ![c] = "done"]
    /\ UNCHANGED <<lConfig, lRequests, lNow, lWakeAt, lMicro>>
    /\ UNCHANGED notLimiter

\* Time passes between two tasks of the event loop.
LimiterTick ==
    /\ lMicro = <<>>
    /\ lNow < MaxNow
    /\ lNow' = lNow + 1
    /\ UNCHANGED <<lConfig, lRequests, lPc, lWakeAt, lMicro>>
    /\ UNCHANGED notLimiter

\* A time one millisecond further in the past; times older than the longest
\* window are all alike and are kept at 0.
Earlier(t) == Max(t - 1, 0)

\* Time passes once the clock has reached MaxNow: the code only uses the
\* differences between Date.now() and the times it stored, so from there on
\* the clock is kept where it is and every stored time moves one millisecond
\* into the past instead (MaxNow >= MaxWindowMs: a time kept at 0 is outside
\* every window).
LimiterTickRelative ==
    /\ lMicro = <<>>
    /\ lNow = MaxNow
    /\ lRequests' = [k \in 1..Len(lRequests) |-> Earlier(lRequests[k])]
    /\ lWakeAt' = [c \in Callers |-> Earlier(lWakeAt[c])]
    /\ UNCHANGED <<lConfig, lNow, lPc, lMicro>>
    /\ UNCHANGED notLimiter

LimiterNext ==
    \/ \E c \in Callers : LimiterCall(c)
    \/ \E c \in Callers : LimiterRecord(c)
    \/ \E c \in Callers : LimiterWake(c)
    \/ \E c \in Callers : LimiterCallSettles(c)
    \/ LimiterTick
    \/ LimiterTickRelative

SpecLimiter == LimiterInit /\ [][LimiterNext]_vars

\* The scheduling of the event loop: a queued microtask runs, a timer that is
\* due fires, and time passes.
LimiterFairness ==
    /\ \A c \in Callers : WF_vars(LimiterRecord(c))
    /\ \A c \in Callers : WF_vars(LimiterWake(c))
    /\ WF_vars(LimiterTick \/ LimiterTickRelative)

SpecLimiterLive == SpecLimiter /\ LimiterFairness

(***************************************************************************)
(* Properties of the RateLimiter                                           *)
(***************************************************************************)
\* The recorded timestamps younger than windowMs.
InWindow == Pruned(lRequests, lNow, lConfig)

\* C4 (as claimed): the admission check and the recording are atomic, so the
\* number of recorded timestamps younger than windowMs never exceeds
\* requestsPerWindow.
C4_WindowNeverOverfilled == Len(InWindow) <= lConfig.requestsPerWindow

\* The callers that have called makeRequest.
Called == {c \in Callers : lPc[c] # "idle"}

\* The callers that have been admitted (waitUntilCanRequest has returned).
Admitted == {c \in Callers : lPc[c] \in {"admitted", "calling", "done"}}

\* C18: starting from an empty window, as long as no more callers have called
\* makeRequest than requestsPerWindow, no caller is suspended in a sleep:
\* each is admitted in the pass of the wait loop its call starts.
C18_NoSleepWithinCapacity ==
    Cardinality(Called) <= lConfig.requestsPerWindow =>
        \A c \in Callers : lPc[c] # "sleeping" /\ lWakeAt[c] = 0

\* C18 witness: requestsPerWindow = NumCallers, every caller has been
\* admitted and has made its call, and the clock has not moved.
C18_Witness ==
    /\ lConfig.requestsPerWindow = NumCallers
    /\ \A c \in Callers : lPc[c] = "done"
    /\ Len(lRequests) = NumCallers
    /\ lNow = 0

\* Caller c runs a pass of the wait loop in this step and suspends in
\* sleep(waitTime).
Suspends(c) ==
    /\ lPc[c] \in {"idle", "sleeping"}
    /\ lPc'[c] = "sleeping"
    /\ lWakeAt'[c] > lWakeAt[c]

\* Caller c runs a pass of the wait loop in this step and is admitted.
PassesAdmission(c) == lPc[c] \in {"idle", "sleeping"} /\ lPc'[c] = "admitted"

\* The waitTime of the sleep caller c starts in this step.
WaitTime(c) == lWakeAt'[c] - lNow

WindowFull == Len(InWindow) >= lConfig.requestsPerWindow

\* C19 (as claimed): with the window full the next caller is not admitted
\* but suspends until the oldest timestamp leaves the window, and the wait
\* is >= 0 and strictly less than windowMs.
C19_AsClaimed ==
    [][\A c \in Callers :
        /\ PassesAdmission(c) => ~WindowFull
        /\ Suspends(c) =>
            /\ WindowFull
            /\ lWakeAt'[c] = Oldest(InWindow) + lConfig.windowMs
            /\ WaitTime(c) >= 0
            /\ WaitTime(c) < lConfig.windowMs]_vars

\* C19 (amended): with the window full the next caller is not admitted but
\* suspends until the oldest timestamp leaves the window, and the wait is
\* >= 0 and at most windowMs (windowMs itself when no time has passed since
\* the oldest admission).
C19_WaitWithinWindow ==
    [][\A c \in Callers :
        /\ PassesAdmission(c) => ~WindowFull
        /\ Suspends(c) =>
            /\ WindowFull
            /\ lWakeAt'[c] = Oldest(InWindow) + lConfig.windowMs
            /\ WaitTime(c) >= 0
            /\ WaitTime(c) <= lConfig.windowMs]_vars

\* C19 witness: a caller sleeps a whole windowMs, the window being full of
\* timestamps recorded at the present time.
C19_Witness ==
    \E c \in Callers :
        /\ lPc[c] = "sleeping"
        /\ Len(InWindow) = lConfig.requestsPerWindow
        /\ \A k \in 1..Len(lRequests) : lRequests[k] = lNow
        /\ lWakeAt[c] = lNow + lConfig.windowMs

NpmRetryOptions ==
    [maxRetries |-> 3, baseDelay |-> DefaultBaseDelay, maxDelay |-> DefaultMaxDelay]

\* The caller of fetchFromNpmRegistry.
Fetcher == 1

AdmissionInit ==
    /\ lConfig \in LimiterConfigs
    /\ lRequests \in {<<>>, <<0>>}
    /\ lNow = 0
    /\ lPc = [c \in Callers |-> "idle"]
    /\ lWakeAt = [c \in Callers |-> 0]
    /\ lMicro = <<>>
    /\ RetryIdle
    /\ DedupIdle
    /\ TreeIdle
    /\ QueueIdle
    /\ OrchestratorIdle

\* makeRequest resumes after the wait, records the request and calls
\* apiCall(), which is apiCallWithRetry(call, { maxRetries: 3 }).
AdmissionRecord ==
    /\ RecordRequest(Fetcher)
    /\ rOptions' = NpmRetryOptions
    /\ rAttempt' = 1
    /\ rPc' = "entry"
    /\ rInvocations' = 0
    /\ rErrors' = <<>>
    /\ rDelays' = <<>>
    /\ rResult' = "pending"
    /\ UNCHANGED notLimiterNorRetry

\* A step of apiCallWithRetry, running inside makeRequest's `await apiCall()`.
AdmissionRetryStep ==
    /\ lPc[Fetcher] = "calling"
    /\ RetryNext

\* apiCallWithRetry has returned or raised, and makeRequest with it.
AdmissionSettles ==
    /\ rPc \in {"returned", "raised"}
    /\ LimiterCallSettles(Fetcher)

\* fetchFromNpmRegistry calls rateLimiters.npm.makeRequest(...), which may
\* wait in waitUntilCanRequest, records the request and runs apiCallWithRetry.
AdmissionNext ==
    \/ LimiterCall(Fetcher)
    \/ LimiterWake(Fetcher)
    \/ AdmissionRecord
    \/ AdmissionRetryStep
    \/ AdmissionSettles
    \/ LimiterTick

SpecAdmission == AdmissionInit /\ [][AdmissionNext]_vars

\* The number of requests the limiter recorded for the fetcher's call.
RecordedForFetcher == IF lPc[Fetcher] \in {"calling", "done"} THEN 1 ELSE 0

\* C24 (as claimed): the number of attempts sent to the provider, first
\* attempts and retries together, never exceeds the number of admissions
\* the provider's limiter recorded for them.
C24_EveryAttemptAdmitted == rInvocations <= RecordedForFetcher

(***************************************************************************)
(* DataCollectionOrchestrator.collectPackageData                           *)
(***************************************************************************)
\* The optional aspects in the order collectPackageData fetches them.
Aspects == <<"dependencies", "vulnerabilities", "github", "staticAnalysis">>

AspectNames == Range(Aspects)

AspectIndex(aspect) == CHOOSE k \in 1..Len(Aspects) : Aspects[k] = aspect

\* { includeStaticAnalysis, includeGitHubData, includeVulnerabilities,
\*   includeDependencies } = options
CollectOptions ==
    [includeDependencies : BOOLEAN, includeVulnerabilities : BOOLEAN,
     includeGitHubData : BOOLEAN, includeStaticAnalysis : BOOLEAN]

\* The registry's answer for a package: its versions and its latest
\* dist-tag, and whether it has a repository field and a dist.tarball.
RegistryVersions == {"1.0.0", "2.0.0"}
RegistryLatest == "2.0.0"
RegistryShapes == [repository : BOOLEAN, tarball : BOOLEAN]

\* The version strings a caller passes.
CallerVersions == {"latest", "1.0.0", "9.9.9"}

\* fetchFromNpmRegistry: targetVersion
ResolvedVersion(version) == IF version = "latest" THEN RegistryLatest ELSE version

\* fetchFromNpmRegistry: if (!versionData && version !== 'latest') throw
VersionFound(version) == version = "latest" \/ version \in RegistryVersions

NoMetadata == [version |-> "", repository |-> FALSE, tarball |-> FALSE]

\* A collectPackageData invocation that has not been called yet.
NotStarted(packageName, version) ==
    [pc |-> "notStarted",
     packageName |-> packageName,
     version |-> version,
     metaOutcome |-> "pending",
     metadata |-> NoMetadata,
     data |-> [a \in AspectNames |-> "absent"],
     outcomes |-> [a \in AspectNames |-> "none"],
     calls |-> <<>>,
     saved |-> FALSE,
     reason |-> ""]

\* collectPackageData(packageName, version, options) up to
\* `await metadataService.fetchFromNpmRegistry(packageName, version)`.
Started(rec) ==
    [rec EXCEPT !.pc = "metadata",
                !.calls = <<[fetcher |-> "metadata", version |-> rec.version]>>]

\* The include-option of an aspect, as destructured from options.
IncludeOption(aspect, options) ==
    CASE aspect = "dependencies" -> options.includeDependencies
      [] aspect = "vulnerabilities" -> options.includeVulnerabilities
      [] aspect = "github" -> options.includeGitHubData
      [] aspect = "staticAnalysis" -> options.includeStaticAnalysis

\* Mutation of Gate: every aspect is guarded by its include-option alone.
GateByOptionOnly(aspect, options, metadata) == IncludeOption(aspect, options)

\* Mutation of AspectCallVersion: the aspect is fetched with the version
\* string the caller gave.
AspectCallVersionAsGiven(rec) == rec.version

\* The version an aspect's fetcher is called with: metadata.version (the
\* GitHub fetcher is given metadata itself).
AspectCallVersion(rec) == rec.metadata.version

\* The condition that guards an aspect's fetch.
Gate(aspect, options, metadata) ==
    CASE aspect = "dependencies" -> options.includeDependencies
      [] aspect = "vulnerabilities" -> options.includeVulnerabilities
      [] aspect = "github" -> options.includeGitHubData /\ metadata.repository
      [] aspect = "staticAnalysis" -> options.includeStaticAnalysis /\ metadata.tarball

\* The code from the if of the aspect at position k on, up to the next await:
\* the first aspect whose condition holds is fetched with metadata.version;
\* with none left, saveToDatabase is awaited when this.db is set, and the
\* result is returned otherwise.
RECURSIVE Proceed(_, _, _, _)
Proceed(rec, k, options, db) ==
    IF k > Len(Aspects)
    THEN IF db
         THEN [rec EXCEPT !.pc = "save", !.saved = TRUE]
         ELSE [rec EXCEPT !.pc = "fulfilled"]
    ELSE IF Gate(Aspects[k], options, rec.metadata)
         THEN [rec EXCEPT !.pc = Aspects[k],
                          !.calls = Append(@, [fetcher |-> Aspects[k],
                                                version |-> AspectCallVersion(rec)])]
         ELSE Proceed(rec, k + 1, options, db)

\* collectionResults.data.metadata = metadata
OnMetadataSuccess(rec, metadata) ==
    [rec EXCEPT !.metaOutcome = "ok", !.metadata = metadata]

\* Mutation of OnMetadataFailure: the outer catch logs the error and does not
\* rethrow it, so the invocation fulfils with what it has.
OnMetadataFailureSwallowed(rec) ==
    [rec EXCEPT !.metaOutcome = "fail", !.pc = "fulfilled"]

\* The fetch of the metadata throws: the outer catch logs and rethrows.
OnMetadataFailure(rec) ==
    [rec EXCEPT !.metaOutcome = "fail", !.pc = "rejected",
                !.reason = "metadata fetch failed"]

\* collectionResults.data[aspect] = <the fetched payload>
OnAspectSuccess(rec, aspect) ==
    [rec EXCEPT !.outcomes[aspect] = "ok", !.data[aspect] = "payload"]

\* Mutation of OnAspectFailure: the aspect has no try/catch of its own, so the
\* error reaches the outer catch, which rethrows it.
OnAspectFailureRethrown(rec, aspect) ==
    [rec EXCEPT !.outcomes[aspect] = "fail", !.pc = "rejected",
                !.reason = "aspect fetch failed"]

\* The aspect's own catch: collectionResults.data[aspect] = { error: error.message }
OnAspectFailure(rec, aspect) ==
    [rec EXCEPT !.outcomes[aspect] = "fail", !.data[aspect] = "error"]

\* The promise of the invocation has settled.
Settled(rec) == rec.pc \in {"fulfilled", "rejected"}

\* The order of settlement, after a step that leaves invocation i as rec.
SettleOrder(settled, i, rec) == IF Settled(rec) THEN Append(settled, i) ELSE settled

\* The outcomes an aspect's fetch of invocation i can have: a fetcher's
\* outcome depends on the package alone, so in a second call with the same
\* packageList it is what it was in the first.
AspectOutcomes(i, aspect) ==
    IF bFirst.concurrency = 0
    THEN BOOLEAN
    ELSE {bFirst.outcomes[i][aspect] = "ok"}

\* Whether the metadata fetch of invocation i throws: the request fails, or
\* the registry does not have the version asked for.
MetaFetchFails(i) == i \in cMetaFails \/ ~VersionFound(cInv[i].version)

\* The caller invokes collectPackageData once.
CollectCall ==
    /\ bPc = "single"
    /\ cInv[1].pc = "notStarted"
    /\ cInv' = [cInv EXCEPT ![1] = Started(@)]
    /\ UNCHANGED <<cSignal, cSettled>>
    /\ UNCHANGED collectInputs
    /\ UNCHANGED batchVars
    /\ UNCHANGED notOrchestrator

\* await metadataService.fetchFromNpmRegistry(...) settles.
MetadataSettles(i) ==
    /\ cInv[i].pc = "metadata"
    /\ cInv' = [cInv EXCEPT ![i] =
            IF MetaFetchFails(i)
            THEN OnMetadataFailure(@)
            ELSE Proceed(OnMetadataSuccess(@,
                            [version |-> ResolvedVersion(@.version),
                             repository |-> cRegistry.repository,
                             tarball |-> cRegistry.tarball]),
                         1, cOptions, cDb)]
    /\ cSettled' = SettleOrder(cSettled, i, cInv'[i])
    /\ UNCHANGED cSignal
    /\ UNCHANGED collectInputs
    /\ UNCHANGED batchVars
    /\ UNCHANGED notOrchestrator

\* The await of an aspect's fetch settles, with a payload or with an error.
\* An error that leaves the aspect's own try/catch is rethrown by the outer
\* catch.
AspectSettles(i) ==
    /\ cInv[i].pc \in AspectNames
    /\ \E ok \in AspectOutcomes(i, cInv[i].pc) :
        LET aspect == cInv[i].pc
            after == IF ok THEN OnAspectSuccess(cInv[i], aspect)
                           ELSE OnAspectFailure(cInv[i], aspect)
        IN  cInv' = [cInv EXCEPT ![i] =
                IF after.pc = "rejected"
                THEN after
                ELSE Proceed(after, AspectIndex(aspect) + 1, cOptions, cDb)]
    /\ cSettled' = SettleOrder(cSettled, i, cInv'[i])
    /\ UNCHANGED cSignal
    /\ UNCHANGED collectInputs
    /\ UNCHANGED batchVars
    /\ UNCHANGED notOrchestrator

\* await this.saveToDatabase(collectionResults) settles (it catches its own
\* errors) and collectPackageData returns collectionResults.
SaveSettles(i) ==
    /\ cInv[i].pc = "save"
    /\ cInv' = [cInv EXCEPT ![i].pc = "fulfilled"]
    /\ cSettled' = SettleOrder(cSettled, i, cInv'[i])
    /\ UNCHANGED cSignal
    /\ UNCHANGED collectInputs
    /\ UNCHANGED batchVars
    /\ UNCHANGED notOrchestrator

\* process.env.COLLECT_STATIC_ANALYSIS: not set, or set to 'true'.
EnvValues == {"unset", "true"}

\* getStaticAnalysis: process.env.COLLECT_STATIC_ANALYSIS !== 'true' answers
\* 503 'Static analysis collection is disabled'.
StaticAnalysisEnabled(env) == env = "true"

\* The caller aborts the signal it passed in options; collectPackageData
\* destructures its four include-options and reads nothing else of options.
CancelSignal ==
    /\ bPc = "single"
    /\ cSignal = "pending"
    /\ ~Settled(cInv[1])
    /\ cSignal' = "aborted"
    /\ UNCHANGED <<cInv, cSettled>>
    /\ UNCHANGED collectInputs
    /\ UNCHANGED batchVars
    /\ UNCHANGED notOrchestrator

CollectInit ==
    /\ cOptions \in CollectOptions
    /\ cDb \in BOOLEAN
    /\ cRegistry \in RegistryShapes
    /\ cMetaFails \in SUBSET {1}
    /\ cInv \in {<<NotStarted("a", v)>> : v \in CallerVersions}
    /\ cEnv \in EnvValues
    /\ cSignal \in {"none", "pending"}
    /\ cSettled = <<>>
    /\ bFirst = NoRun
    /\ bList = <<>>
    /\ bConcurrency = 0
    /\ bI = 0
    /\ bBatch = <<>>
    /\ bPc = "single"
    /\ bResults = <<>>
    /\ bErrors = <<>>
    /\ bReturn = <<>>
    /\ DedupIdle
    /\ TreeIdle
    /\ QueueIdle
    /\ RetryIdle
    /\ LimiterIdle

CollectNext ==
    \/ CollectCall
    \/ MetadataSettles(1)
    \/ AspectSettles(1)
    \/ SaveSettles(1)
    \/ CancelSignal

SpecCollect == CollectInit /\ [][CollectNext]_vars

(***************************************************************************)
(* DataCollectionOrchestrator.batchCollectPackages                         *)
(***************************************************************************)
\* The longest packageList, the largest concurrency, and how far below 0 the
\* loop variable is followed when the concurrency is negative.
MaxPackages == 3
MaxConcurrency == 2
MaxBelowZero == 2

\* The items of a packageList.
BatchItems == {[name |-> "a", version |-> "latest"], [name |-> "b", version |-> "1.0.0"]}

\* The concurrency option; batchCollectPackages does not validate it.
Concurrencies == (-1)..MaxConcurrency

\* The collectOptions a batch is run with.
BatchOptions ==
    {o \in CollectOptions :
        /\ ~o.includeVulnerabilities
        /\ ~o.includeGitHubData
        /\ ~o.includeStaticAnalysis}

\* Array.prototype.slice: a negative index counts from the end.
SliceIndex(k, len) == IF k < 0 THEN Max(len + k, 0) ELSE Min(k, len)

\* Mutation of SlicePositions: the slice takes the item at `end` as well.
SlicePositionsInclusive(len, start, end) ==
    [j \in 1..Max(SliceIndex(end + 1, len) - SliceIndex(start, len), 0) |->
        SliceIndex(start, len) + j]

\* packageList.slice(start, end), as the positions (from 1) it takes.
SlicePositions(len, start, end) ==
    [j \in 1..Max(SliceIndex(end, len) - SliceIndex(start, len), 0) |->
        SliceIndex(start, len) + j]

\* What Promise.allSettled gives for one settled collectPackageData promise.
Settlement(rec) ==
    IF rec.pc = "fulfilled"
    THEN [status |-> "fulfilled",
          value |-> [packageName |-> rec.packageName, version |-> rec.version,
                     data |-> rec.data]]
    ELSE [status |-> "rejected", reason |-> rec.reason]

\* Mutation of AllSettled: Promise.all, which rejects when a promise rejects.
PromiseAll(settlements) ==
    IF \E k \in 1..Len(settlements) : settlements[k].status = "rejected"
    THEN [status |-> "rejected"]
    ELSE [status |-> "fulfilled", value |-> settlements]

\* await Promise.allSettled(...): always fulfils, with every settlement.
AllSettled(settlements) == [status |-> "fulfilled", value |-> settlements]

\* Mutation of PushResults: results.unshift(result.value).
RECURSIVE PushResultsFirst(_, _, _)
PushResultsFirst(results, batchResults, k) ==
    IF k > Len(batchResults)
    THEN results
    ELSE PushResultsFirst(
            IF batchResults[k].status = "fulfilled"
            THEN <<batchResults[k].value>> \o results
            ELSE results,
            batchResults, k + 1)

\* batchResults.forEach((result, index) => ...), from position k on.
RECURSIVE PushResults(_, _, _)
PushResults(results, batchResults, k) ==
    IF k > Len(batchResults)
    THEN results
    ELSE PushResults(
            IF batchResults[k].status = "fulfilled"
            THEN Append(results, batchResults[k].value)
            ELSE results,
            batchResults, k + 1)

\* Mutation of PushErrors: package: packageList[index], the index being the
\* one in the batch.
RECURSIVE PushErrorsByListIndex(_, _, _, _)
PushErrorsByListIndex(errors, batchResults, batch, k) ==
    IF k > Len(batchResults)
    THEN errors
    ELSE PushErrorsByListIndex(
            IF batchResults[k].status = "fulfilled"
            THEN errors
            ELSE Append(errors, [package |-> bList[k],
                                 error |-> batchResults[k].reason]),
            batchResults, batch, k + 1)

RECURSIVE PushErrors(_, _, _, _)
PushErrors(errors, batchResults, batch, k) ==
    IF k > Len(batchResults)
    THEN errors
    ELSE PushErrors(
            IF batchResults[k].status = "fulfilled"
            THEN errors
            ELSE Append(errors, [package |-> bList[batch[k]],
                                 error |-> batchResults[k].reason]),
            batchResults, batch, k + 1)

\* The loop from the test of `i < packageList.length` to the next await: the
\* next batch is sliced and collectPackageData is called for each of its
\* items, each call running up to its first await; or the loop ends and the
\* result is returned.
BatchIterate(i, results, errors) ==
    /\ bI' = i
    /\ bResults' = results
    /\ bErrors' = errors
    /\ IF i < Len(bList)
       THEN LET batch == SlicePositions(Len(bList), i, i + bConcurrency)
            IN  /\ bBatch' = batch
                /\ cInv' = [p \in DOMAIN cInv |->
                                IF p \in Range(batch) THEN Started(cInv[p]) ELSE cInv[p]]
                /\ bPc' = "awaiting"
                /\ bReturn' = bReturn
       ELSE /\ bBatch' = bBatch
            /\ cInv' = cInv
            /\ bPc' = "returned"
            /\ bReturn' = [results |-> results, errors |-> errors,
                           summary |-> [total |-> Len(bList),
                                        successful |-> Len(results),
                                        failed |-> Len(errors)]]

\* batchCollectPackages(packageList, options) is called.
BatchCall ==
    /\ bPc = "entry"
    /\ BatchIterate(0, <<>>, <<>>)
    /\ UNCHANGED <<bList, bConcurrency, bFirst>>
    /\ UNCHANGED <<cSignal, cSettled>>
    /\ UNCHANGED collectInputs
    /\ UNCHANGED notOrchestrator

\* Mutation of EverySettled: the await yields when one promise has settled.
OneSettled(batch, inv) == \E k \in 1..Len(batch) : Settled(inv[batch[k]])

\* The promise of Promise.allSettled(...) is settled: every promise given to
\* it is.
EverySettled(batch, inv) == \A k \in 1..Len(batch) : Settled(inv[batch[k]])

\* Every promise of the batch has settled: the await yields, the settlements
\* are pushed to results and errors, i += concurrency, and the loop goes on.
BatchGroupSettled ==
    /\ bPc = "awaiting"
    /\ EverySettled(bBatch, cInv)
    /\ bI + bConcurrency >= -MaxBelowZero
    /\ LET awaited == AllSettled([k \in 1..Len(bBatch) |-> Settlement(cInv[bBatch[k]])])
       IN  IF awaited.status = "rejected"
           THEN /\ bPc' = "raised"
                /\ UNCHANGED <<bI, bBatch, bResults, bErrors, bReturn, cInv>>
           ELSE BatchIterate(bI + bConcurrency,
                             PushResults(bResults, awaited.value, 1),
                             PushErrors(bErrors, awaited.value, bBatch, 1))
    /\ UNCHANGED <<bList, bConcurrency, bFirst>>
    /\ UNCHANGED <<cSignal, cSettled>>
    /\ UNCHANGED collectInputs
    /\ UNCHANGED notOrchestrator

\* batchCollectPackages has returned and the caller gets ready to call it
\* again with the same packageList and options and another positive
\* concurrency.
BatchAgain ==
    /\ bPc = "returned"
    /\ bConcurrency > 0
    /\ bFirst.concurrency = 0
    /\ \E c \in 1..MaxConcurrency :
        /\ c # bConcurrency
        /\ bConcurrency' = c
    /\ bFirst' = [concurrency |-> bConcurrency, return |-> bReturn,
                  outcomes |-> [p \in DOMAIN cInv |-> cInv[p].outcomes]]
    /\ cInv' = [p \in 1..Len(bList) |-> NotStarted(bList[p].name, bList[p].version)]
    /\ cSettled' = <<>>
    /\ bI' = 0
    /\ bBatch' = <<>>
    /\ bPc' = "entry"
    /\ bResults' = <<>>
    /\ bErrors' = <<>>
    /\ bReturn' = <<>>
    /\ UNCHANGED bList
    /\ UNCHANGED cSignal
    /\ UNCHANGED collectInputs
    /\ UNCHANGED notOrchestrator

BatchInit ==
    /\ bList \in SeqsUpTo(BatchItems, MaxPackages)
    /\ bConcurrency \in Concurrencies
    /\ cOptions \in BatchOptions
    /\ cDb = FALSE
    /\ cRegistry = [repository |-> TRUE, tarball |-> TRUE]
    /\ cMetaFails \in SUBSET (1..Len(bList))
    /\ cInv = [p \in 1..Len(bList) |-> NotStarted(bList[p].name, bList[p].version)]
    /\ cEnv = "unset"
    /\ cSignal = "none"
    /\ cSettled = <<>>
    /\ bFirst = NoRun
    /\ bI = 0
    /\ bBatch = <<>>
    /\ bPc = "entry"
    /\ bResults = <<>>
    /\ bErrors = <<>>
    /\ bReturn = <<>>
    /\ DedupIdle
    /\ TreeIdle
    /\ QueueIdle
    /\ RetryIdle
    /\ LimiterIdle

BatchNext ==
    \/ BatchCall
    \/ BatchGroupSettled
    \/ \E p \in DOMAIN cInv : MetadataSettles(p)
    \/ \E p \in DOMAIN cInv : AspectSettles(p)
    \/ BatchAgain

SpecBatch == BatchInit /\ [][BatchNext]_vars

\* The scheduling of the event loop: a fetch that is pending settles and a
\* continuation that is ready runs.
BatchFairness == WF_vars(BatchNext)

SpecBatchLive == SpecBatch /\ BatchFairness

(***************************************************************************)
(* Properties of the DataCollectionOrchestrator                            *)
(***************************************************************************)
Invocations == DOMAIN cInv

\* The fetcher of an aspect has been called by the invocation.
Attempted(rec, aspect) == \E k \in 1..Len(rec.calls) : rec.calls[k].fetcher = aspect

\* The positions of packageList that hold item x and whose collection ended
\* in the given way.
PositionsOf(x, pc) == {p \in 1..Len(bList) : bList[p] = x /\ cInv[p].pc = pc}

ResultsOf(x) ==
    {k \in 1..Len(bReturn.results) :
        bReturn.results[k].packageName = x.name /\ bReturn.results[k].version = x.version}

ErrorsOf(x) == {k \in 1..Len(bReturn.errors) : bReturn.errors[k].package = x}

\* C1: batchCollectPackages never raises; when it returns, every item has
\* settled, each item is once in results if its collection fulfilled and once
\* in errors, with its identity, if it rejected, and summary.total =
\* successful + failed = the number of items.
C1_BatchIsolatesFailures ==
    /\ bPc # "raised"
    /\ bPc = "returned" =>
        /\ \A p \in 1..Len(bList) : Settled(cInv[p])
        /\ \A x \in BatchItems :
            /\ Cardinality(ResultsOf(x)) = Cardinality(PositionsOf(x, "fulfilled"))
            /\ Cardinality(ErrorsOf(x)) = Cardinality(PositionsOf(x, "rejected"))
        /\ Len(bReturn.results) + Len(bReturn.errors) = Len(bList)
        /\ bReturn.summary.total = Len(bList)
        /\ bReturn.summary.successful = Len(bReturn.results)
        /\ bReturn.summary.failed = Len(bReturn.errors)
        /\ bReturn.summary.total = bReturn.summary.successful + bReturn.summary.failed

\* C1 witness: three items in batches of two, the second item's collection
\* fails and the others succeed: two results, one error naming the second item.
C1_Witness ==
    /\ bPc = "returned"
    /\ Len(bList) = 3
    /\ bConcurrency = 2
    /\ bList[1] # bList[2]
    /\ cInv[1].pc = "fulfilled" /\ cInv[2].pc = "rejected" /\ cInv[3].pc = "fulfilled"
    /\ Len(bReturn.results) = 2
    /\ Len(bReturn.errors) = 1
    /\ bReturn.errors[1].package = bList[2]

\* C2: once the metadata step has succeeded the invocation never rejects; an
\* aspect whose fetch failed holds an error descriptor under its own key, an
\* aspect whose fetch succeeded holds its payload, and when the invocation
\* has returned every aspect whose condition holds has been attempted,
\* whatever the outcome of the others.
C2_AspectFailureIsolated ==
    \A i \in Invocations :
        cInv[i].metaOutcome = "ok" =>
            /\ cInv[i].pc # "rejected"
            /\ \A a \in AspectNames :
                /\ cInv[i].outcomes[a] = "fail" => cInv[i].data[a] = "error"
                /\ cInv[i].outcomes[a] = "ok" => cInv[i].data[a] = "payload"
                /\ cInv[i].outcomes[a] = "none" => cInv[i].data[a] = "absent"
            /\ cInv[i].pc = "fulfilled" =>
                \A a \in AspectNames :
                    /\ Attempted(cInv[i], a) <=> Gate(a, cOptions, cInv[i].metadata)
                    /\ Attempted(cInv[i], a) <=> cInv[i].outcomes[a] # "none"

\* C2 witness: the dependencies and the GitHub fetch fail, the vulnerabilities
\* and the static analysis fetch succeed, and the invocation returns.
C2_Witness ==
    /\ bPc = "single"
    /\ cInv[1].pc = "fulfilled"
    /\ cInv[1].data["dependencies"] = "error"
    /\ cInv[1].data["vulnerabilities"] = "payload"
    /\ cInv[1].data["github"] = "error"
    /\ cInv[1].data["staticAnalysis"] = "payload"

\* C3: an invocation whose metadata fetch fails rejects, having called no
\* aspect fetcher and no persistence, and holding no aspect data.
C3_MetadataFailureAborts ==
    \A i \in Invocations :
        MetaFetchFails(i) /\ cInv[i].pc \notin {"notStarted", "metadata"} =>
            /\ cInv[i].pc = "rejected"
            /\ cInv[i].reason # ""
            /\ \A a \in AspectNames : ~Attempted(cInv[i], a) /\ cInv[i].data[a] = "absent"
            /\ ~cInv[i].saved

\* C3 witness: every aspect is asked for and a database is set, the metadata
\* request fails, and the invocation has rejected.
C3_Witness ==
    /\ bPc = "single"
    /\ cDb
    /\ \A a \in AspectNames : Gate(a, cOptions, cRegistry)
    /\ 1 \in cMetaFails
    /\ cInv[1].pc = "rejected"

\* The positions of packageList whose collection ended in the given way, in
\* the order of packageList.
PositionsEnded(pc) ==
    SelectSeq([p \in 1..Len(bList) |-> p], LAMBDA p : cInv[p].pc = pc)

\* C11: when batchCollectPackages returns, results holds the values of the
\* items whose collection fulfilled, in the order of packageList, and errors
\* holds the items whose collection rejected, in the order of packageList,
\* whatever the concurrency and the order in which the collections settled.
C11_InputOrderPreserved ==
    bPc = "returned" =>
        /\ Len(bReturn.results) = Len(PositionsEnded("fulfilled"))
        /\ \A k \in 1..Len(bReturn.results) :
            LET p == PositionsEnded("fulfilled")[k]
            IN  /\ bReturn.results[k].packageName = bList[p].name
                /\ bReturn.results[k].version = bList[p].version
                /\ bReturn.results[k].data = cInv[p].data
        /\ Len(bReturn.errors) = Len(PositionsEnded("rejected"))
        /\ \A k \in 1..Len(bReturn.errors) :
            bReturn.errors[k].package = bList[PositionsEnded("rejected")[k]]

\* C11 witness: the first two items are different, are collected in the
\* same batch and both succeed, the second settling before the first; the
\* first item's result comes first.
C11_Witness ==
    /\ bPc = "returned"
    /\ bConcurrency = 2
    /\ Len(bList) >= 2
    /\ bList[1] # bList[2]
    /\ cInv[1].pc = "fulfilled" /\ cInv[2].pc = "fulfilled"
    /\ cSettled[1] = 2 /\ cSettled[2] = 1
    /\ bReturn.results[1].packageName = bList[1].name
    /\ bReturn.results[2].packageName = bList[2].name

\* The invocations that have been called and have not settled.
InFlight == {p \in DOMAIN cInv : cInv[p].pc # "notStarted" /\ ~Settled(cInv[p])}

\* C12: with a positive concurrency, at most concurrency invocations started
\* by the batch call are unsettled at any moment.
C12_AtMostConcurrencyInFlight ==
    bConcurrency > 0 /\ bPc # "single" => Cardinality(InFlight) <= bConcurrency

\* C12 witness: with concurrency 2 and three items, two collections are in
\* flight and the third has not been started.
C12_Witness ==
    /\ bPc = "awaiting"
    /\ bConcurrency = 2
    /\ Len(bList) = 3
    /\ Cardinality(InFlight) = 2
    /\ cInv[3].pc = "notStarted"

\* C13: a call with concurrency 1 and a call with concurrency 2, with the
\* same packageList, the same options and the same outcome of every fetch,
\* return the same results, the same errors and the same summary.
C13_SameForConcurrencyOneAndTwo ==
    /\ bPc = "returned"
    /\ {bFirst.concurrency, bConcurrency} = {1, 2}
    => /\ bReturn.results = bFirst.return.results
       /\ bReturn.errors = bFirst.return.errors
       /\ bReturn.summary = bFirst.return.summary

\* C13 witness: three items, of which some succeed and some fail, have been
\* collected with concurrency 1 and then with concurrency 2.
C13_Witness ==
    /\ bPc = "returned"
    /\ bFirst.concurrency = 1
    /\ bConcurrency = 2
    /\ Len(bList) = 3
    /\ bList[2] # bList[3]
    /\ cInv[3].pc = "rejected"
    /\ Len(bReturn.results) = 2
    /\ Len(bReturn.errors) = 1

\* C14: the first call of an invocation is the metadata fetch; an aspect's
\* fetcher is called only once the metadata fetch has succeeded, and it is
\* called with the version the registry resolved (the latest dist-tag for
\* "latest"), not with the version string of the caller.
C14_MetadataFirstThenResolvedVersion ==
    \A i \in Invocations :
        /\ cInv[i].pc = "metadata" => Len(cInv[i].calls) = 1
        /\ \A k \in 1..Len(cInv[i].calls) :
            IF k = 1
            THEN cInv[i].calls[k].fetcher = "metadata"
            ELSE /\ cInv[i].calls[k].fetcher \in AspectNames
                 /\ cInv[i].metaOutcome = "ok"
                 /\ cInv[i].calls[k].version = cInv[i].metadata.version
                 /\ cInv[i].calls[k].version = ResolvedVersion(cInv[i].version)

\* C14 witness: called with "latest", the invocation has fetched two aspects
\* or more with the version of the latest dist-tag and has returned.
C14_Witness ==
    /\ bPc = "single"
    /\ cInv[1].version = "latest"
    /\ cInv[1].pc = "fulfilled"
    /\ Len(cInv[1].calls) >= 3
    /\ \A k \in 2..Len(cInv[1].calls) : cInv[1].calls[k].version = RegistryLatest

\* What an aspect needs from the metadata to be fetched at all.
Applicable(aspect, metadata) ==
    CASE aspect = "github" -> metadata.repository
      [] aspect = "staticAnalysis" -> metadata.tarball
      [] OTHER -> TRUE

HasKey(rec, aspect) == rec.data[aspect] # "absent"

\* C15 (as claimed): after an invocation whose metadata step succeeded, the
\* result holds the key of an aspect if and only if the aspect's
\* include-option is true, and an aspect whose option is false is never
\* fetched.
C15_AsClaimed ==
    \A i \in Invocations : \A a \in AspectNames :
        /\ ~IncludeOption(a, cOptions) => ~Attempted(cInv[i], a)
        /\ cInv[i].metaOutcome = "ok" /\ cInv[i].pc = "fulfilled" =>
            (HasKey(cInv[i], a) <=> IncludeOption(a, cOptions))

\* C15 (amended): the result holds the key of an aspect if and only if the
\* aspect's include-option is true and, for github, the metadata has a
\* repository, for staticAnalysis, the resolved version has a dist.tarball;
\* an aspect whose option is false is never fetched.
C15_KeyIffOptionAndApplicable ==
    \A i \in Invocations : \A a \in AspectNames :
        /\ ~IncludeOption(a, cOptions) => ~Attempted(cInv[i], a)
        /\ cInv[i].metaOutcome = "ok" /\ cInv[i].pc = "fulfilled" =>
            (HasKey(cInv[i], a) <=>
                IncludeOption(a, cOptions) /\ Applicable(a, cInv[i].metadata))

\* C15 witness: GitHub data is asked for and the metadata has no repository,
\* so the result has no github key; dependencies are not asked for and have
\* no key; vulnerabilities are asked for and have one.
C15_Witness ==
    /\ bPc = "single"
    /\ cInv[1].pc = "fulfilled"
    /\ cOptions.includeGitHubData /\ ~cInv[1].metadata.repository
    /\ ~HasKey(cInv[1], "github")
    /\ ~cOptions.includeDependencies /\ ~HasKey(cInv[1], "dependencies")
    /\ cOptions.includeVulnerabilities /\ HasKey(cInv[1], "vulnerabilities")

\* C16 (as claimed): with COLLECT_STATIC_ANALYSIS not enabled,
\* collectPackageData never calls the static-analysis fetcher and records
\* nothing under staticAnalysis, whatever includeStaticAnalysis is.
C16_StaticAnalysisNeedsFlag ==
    \A i \in Invocations :
        ~StaticAnalysisEnabled(cEnv) =>
            /\ ~Attempted(cInv[i], "staticAnalysis")
            /\ cInv[i].data["staticAnalysis"] = "absent"

\* C17 (as claimed): once the caller's signal is aborted, the invocation
\* starts no further upstream call, and it ends rejected with the outcome
\* "cancelled".
C17_SignalStopsCollection ==
    [][cSignal = "aborted" =>
        \A i \in Invocations :
            /\ Len(cInv'[i].calls) = Len(cInv[i].calls)
            /\ cInv'[i].pc # cInv[i].pc =>
                cInv'[i].pc = "rejected" /\ cInv'[i].reason = "cancelled"]_vars

\* C29 (as claimed): for every non-empty packageList and every concurrency
\* the controller forwards, zero and negative integers included,
\* batchCollectPackages eventually returns its BatchResult.
C29_BatchTerminates ==
    bList # <<>> => <>(bPc = "returned")

\* The group of a position of packageList under a positive concurrency.
GroupOf(p) == (p - 1) \div bConcurrency

\* C30: with a positive concurrency, when the collection of an item has been
\* started, the collection of every item of every earlier group has settled.
C30_GroupsOneAfterAnother ==
    bConcurrency > 0 /\ bPc # "single" =>
        \A p, q \in DOMAIN cInv :
            GroupOf(q) < GroupOf(p) /\ cInv[p].pc # "notStarted" => Settled(cInv[q])

\* C30 witness: with concurrency 2 and three items, the third collection is
\* in flight after the first two have settled, the second before the first
\* and one of them rejected.
C30_Witness ==
    /\ bPc = "awaiting"
    /\ bConcurrency = 2
    /\ Len(bList) = 3
    /\ cInv[3].pc = "metadata"
    /\ cSettled = <<2, 1>>
    /\ cInv[1].pc = "rejected"
    /\ cInv[2].pc = "fulfilled"

(***************************************************************************)
(* dependenciesService.buildDependencyTree                                 *)
(***************************************************************************)

\* The largest maxDepth tried.
MaxDepthTried == 3

PackageNames == {"a", "b"}

\* A version as a package.json declares it: exact, or a range.
DeclaredVersions == {"1.0.0", "^1.0.0"}

\* An entry of versionData.dependencies.
Dependencies == [name : PackageNames, version : DeclaredVersions]

DependencyLists ==
    {<<>>} \cup {<<d>> : d \in Dependencies} \cup {<<d, e>> : d, e \in Dependencies}

\* versionRange.match(/^\d+\.\d+\.\d+$/)
IsExactVersion(versionRange) == versionRange \in {"1.0.0", "2.0.0", "9.9.9"}

\* `${packageName}@${version}`
TreeKey(packageName, version) == packageName \o "@" \o version

\* fetchDependencies(packageName, version) throws: the registry cannot be
\* reached for the package, or has no such version of it.
FetchDependenciesFails(packageName, version, registry) ==
    \/ packageName \in registry.unfetchable
    \/ version # "latest" /\ version \notin RegistryVersions

\* (await fetchDependencies(packageName, version)).dependencies; every
\* version of a package declares the same dependencies here.
fetchDependencies(packageName, version, registry) == registry.deps[packageName]

\* resolveVersion(packageName, versionRange)
resolveVersion(packageName, versionRange, registry) ==
    IF packageName \in registry.unfetchable
    THEN versionRange
    ELSE IF IsExactVersion(versionRange) THEN versionRange ELSE RegistryLatest

\* Mutation of Revisited: no key counts as visited.
RevisitedNever(key, visited) == FALSE

\* visited.has(key)
Revisited(key, visited) == key \in visited

RECURSIVE buildDependencyTree(_, _, _, _, _, _)
RECURSIVE ForEachDep(_, _, _, _, _, _, _)

\* The loop `for (const dep of deps.dependencies)` from the k-th dependency
\* on: what it pushes to transitiveDeps.
ForEachDep(deps, k, packageName, maxDepth, currentDepth, visited, registry) ==
    IF k > Len(deps)
    THEN <<>>
    ELSE LET dep == deps[k]
             resolvedVersion == resolveVersion(dep.name, dep.version, registry)
             entry == [name |-> dep.name,
                       version |-> resolvedVersion,
                       type |-> "transitive",
                       depth |-> currentDepth + 1,
                       parent |-> packageName]
             subDeps == IF currentDepth + 1 < maxDepth
                        THEN buildDependencyTree(dep.name, resolvedVersion, maxDepth,
                                                 currentDepth + 1, visited, registry)
                        ELSE <<>>
         IN  <<entry>> \o subDeps
                \o ForEachDep(deps, k + 1, packageName, maxDepth, currentDepth,
                              visited, registry)

\* buildDependencyTree(packageName, version, maxDepth, currentDepth, visited):
\* the array it returns. A failure of fetchDependencies is caught and gives [].
buildDependencyTree(packageName, version, maxDepth, currentDepth, visited, registry) ==
    IF currentDepth >= maxDepth
    THEN <<>>
    ELSE IF Revisited(TreeKey(packageName, version), visited)
    THEN <<>>
    ELSE IF FetchDependenciesFails(packageName, version, registry)
    THEN <<>>
    ELSE ForEachDep(fetchDependencies(packageName, version, registry), 1,
                    packageName, maxDepth, currentDepth,
                    visited \cup {TreeKey(packageName, version)}, registry)

TreeInit ==
    /\ tArgs \in [packageName : PackageNames, version : CallerVersions,
                   maxDepth : 0..MaxDepthTried]
    /\ tRegistry \in [deps : [PackageNames -> DependencyLists],
                       unfetchable : SUBSET PackageNames]
    /\ tPc = "entry"
    /\ tOut = <<>>
    /\ DedupIdle
    /\ QueueIdle
    /\ RetryIdle
    /\ LimiterIdle
    /\ OrchestratorIdle

\* buildDependencyTree(packageName, version, maxDepth) is called and returns.
TreeCall ==
    /\ tPc = "entry"
    /\ tOut' = buildDependencyTree(tArgs.packageName, tArgs.version, tArgs.maxDepth,
                                   0, {}, tRegistry)
    /\ tPc' = "returned"
    /\ UNCHANGED <<tArgs, tRegistry>>
    /\ UNCHANGED notTree

TreeNext == TreeCall

SpecTree == TreeInit /\ [][TreeNext]_vars

(***************************************************************************)
(* Properties of buildDependencyTree                                       *)
(***************************************************************************)

\* The key under which the package of the i-th returned entry is visited.
KeyOfEntry(i) == tOut[i].name \o "@" \o tOut[i].version

\* The entry at the given depth above the i-th entry: the array is in
\* preorder, so it is the last one before i with that depth.
AncestorOf(i, depth) ==
    CHOOSE j \in 1..(i - 1) :
        /\ tOut[j].depth = depth
        /\ \A k \in (j + 1)..(i - 1) : tOut[k].depth # depth

\* The keys on the path from the root of the call to the i-th entry.
PathKeys(i) ==
    {tArgs.packageName \o "@" \o tArgs.version}
        \cup {KeyOfEntry(AncestorOf(i, depth)) : depth \in 1..(tOut[i].depth - 1)}

\* The i-th entry has no entry below it.
NoSubtree(i) == i = Len(tOut) \/ tOut[i + 1].depth <= tOut[i].depth

\* C25: buildDependencyTree returns, on every dependency graph and for every
\* maxDepth >= 0, an array whose entries have a depth from 1 to maxDepth, and
\* an entry whose package@version is already on its path has no subtree.
C25_TreeBoundedAndCyclesCut ==
    tPc = "returned" =>
        \A i \in 1..Len(tOut) :
            /\ tOut[i].depth >= 1
            /\ tOut[i].depth <= tArgs.maxDepth
            /\ KeyOfEntry(i) \in PathKeys(i) => NoSubtree(i)

\* C25 witness: the call has returned an entry above maxDepth whose
\* package@version is on its own path, for a package the registry serves
\* and that declares dependencies.
C25_Witness ==
    /\ tPc = "returned"
    /\ \E i \in 1..Len(tOut) :
        /\ KeyOfEntry(i) \in PathKeys(i)
        /\ tOut[i].depth < tArgs.maxDepth
        /\ tOut[i].name \notin tRegistry.unfetchable
        /\ tRegistry.deps[tOut[i].name] # <<>>
        /\ NoSubtree(i)

(***************************************************************************)
(* RequestQueue                                                            *)
(***************************************************************************)

\* How many enqueue calls a run makes at most.
MaxQueued == 3

Priorities == {"high", "normal", "low"}

\* const priorityOrder = { high: 0, normal: 1, low: 2 }
priorityOrder(priority) ==
    CASE priority = "high" -> 0
      [] priority = "normal" -> 1
      [] priority = "low" -> 2

\* Where a stable sort puts request r in a queue that is sorted: behind the
\* requests that do not compare greater than it.
InsertByPriority(sorted, r, priority) ==
    LET before == {k \in 1..Len(sorted) :
                        priorityOrder(priority[sorted[k]]) - priorityOrder(priority[r]) <= 0}
        n == Cardinality(before)
    IN  SubSeq(sorted, 1, n) \o <<r>> \o SubSeq(sorted, n + 1, Len(sorted))

\* Mutation of SortByPriority: the queue is left in the order of the pushes.
SortByArrival(queue, priority) == queue

\* this.queue.sort((a, b) => priorityOrder[a.priority] -
\* priorityOrder[b.priority]); Array.prototype.sort is stable.
RECURSIVE SortByPriority(_, _)
SortByPriority(queue, priority) ==
    IF queue = <<>>
    THEN <<>>
    ELSE InsertByPriority(SortByPriority(SubSeq(queue, 1, Len(queue) - 1), priority),
                          queue[Len(queue)], priority)

\* Mutation of StartsProcessing: every enqueue calls processQueue().
StartsProcessingAlways(processing) == TRUE

\* if (!this.processing) this.processQueue()
StartsProcessing(processing) == ~processing

\* Mutation of Caught: a rejection of makeRequest leaves the loop.
CaughtNever(outcome) == outcome = "fulfilled"

\* try { ... resolve(result) } catch (error) { reject(error) }: whatever
\* the outcome of makeRequest, it is handled inside the loop's body.
Caught(outcome) == TRUE

\* resolve or reject is called on a promise: only the first call settles it.
SettlePromise(promise, outcome) == IF promise = "pending" THEN outcome ELSE promise

QueueInit ==
    /\ qQueue = <<>>
    /\ qProcessing = FALSE
    /\ qLoops = 0
    /\ qInFlight = {}
    /\ qPriority = <<>>
    /\ qOutcome = <<>>
    /\ qPromise = <<>>
    /\ qSettles = <<>>
    /\ qStartedBy = <<>>
    /\ DedupIdle
    /\ TreeIdle
    /\ RetryIdle
    /\ LimiterIdle
    /\ OrchestratorIdle

\* enqueue(apiCall, priority) is called: the request is pushed, the queue
\* is sorted and, when no processQueue is running, processQueue() is called
\* and runs up to its first `await`.
QueueEnqueue ==
    /\ Len(qPriority) < MaxQueued
    /\ \E priority \in Priorities :
        LET r == Len(qPriority) + 1
            priorities == Append(qPriority, priority)
            queue == SortByPriority(Append(qQueue, r), priorities)
        IN  /\ qPriority' = priorities
            /\ qOutcome' = Append(qOutcome, "none")
            /\ qPromise' = Append(qPromise, "pending")
            /\ qSettles' = Append(qSettles, 0)
            /\ IF StartsProcessing(qProcessing)
               THEN /\ qProcessing' = TRUE
                    /\ qLoops' = qLoops + 1
                    /\ qInFlight' = qInFlight \cup {Head(queue)}
                    /\ qQueue' = Tail(queue)
                    /\ qStartedBy' = [Append(qStartedBy, "none") EXCEPT
                                            ![Head(queue)] = "enqueue"]
               ELSE /\ qQueue' = queue
                    /\ qStartedBy' = Append(qStartedBy, "none")
                    /\ UNCHANGED <<qProcessing, qLoops, qInFlight>>
    /\ UNCHANGED notQueue

\* rateLimiter.makeRequest(apiCall) settles for request r: processQueue
\* resumes, resolves or rejects the request's promise, and goes round its
\* loop: it shifts the next request and awaits it, or the queue is empty and
\* it sets processing = false and returns.
QueueRequestSettles(r) ==
    /\ r \in qInFlight
    /\ \E outcome \in {"fulfilled", "rejected"} :
        /\ qOutcome' = [qOutcome EXCEPT ![r] = outcome]
        /\ IF Caught(outcome)
           THEN /\ qPromise' = [qPromise EXCEPT ![r] = SettlePromise(@, outcome)]
                /\ qSettles' = [qSettles EXCEPT ![r] = @ + 1]
                /\ IF Len(qQueue) > 0
                   THEN /\ qInFlight' = (qInFlight \ {r}) \cup {Head(qQueue)}
                        /\ qQueue' = Tail(qQueue)
                        /\ qStartedBy' = [qStartedBy EXCEPT ![Head(qQueue)] = "loop"]
                        /\ UNCHANGED <<qProcessing, qLoops>>
                   ELSE /\ qInFlight' = qInFlight \ {r}
                        /\ qProcessing' = FALSE
                        /\ qLoops' = qLoops - 1
                        /\ UNCHANGED <<qQueue, qStartedBy>>
           ELSE /\ qInFlight' = qInFlight \ {r}
                /\ qLoops' = qLoops - 1
                /\ UNCHANGED <<qPromise, qSettles, qQueue, qStartedBy, qProcessing>>
    /\ UNCHANGED qPriority
    /\ UNCHANGED notQueue

QueueNext ==
    \/ QueueEnqueue
    \/ \E r \in 1..MaxQueued : QueueRequestSettles(r)

SpecQueue == QueueInit /\ [][QueueNext]_vars

\* The rate limiter admits every request in the end and every apiCall
\* settles: a request in flight settles.
QueueFairness == \A r \in 1..MaxQueued : WF_vars(QueueRequestSettles(r))

SpecQueueLive == SpecQueue /\ QueueFairness

(***************************************************************************)
(* Properties of the RequestQueue                                          *)
(***************************************************************************)

\* C26: at most one processQueue loop is active and at most one enqueued
\* apiCall is in flight at any time, and a request is in flight exactly while
\* processing is set.
C26_OneLoopOneInFlight ==
    /\ qLoops <= 1
    /\ Cardinality(qInFlight) <= 1
    /\ qProcessing <=> qLoops = 1
    /\ qProcessing <=> qInFlight # {}

\* C26 witness: two requests were enqueued while the first was in flight;
\* they wait and one loop is active.
C26_Witness ==
    /\ qInFlight = {1}
    /\ Len(qQueue) = 2
    /\ qLoops = 1
    /\ qProcessing

\* A request's promise is settled at most once, with the outcome of the
\* request's own apiCall, and nothing waits while no loop is processing.
SettledOnceWithOwnOutcome ==
    /\ \A r \in 1..Len(qPromise) :
        /\ qSettles[r] <= 1
        /\ qPromise[r] # "pending" <=> qSettles[r] = 1
        /\ qPromise[r] # "pending" => qPromise[r] = qOutcome[r]
    /\ ~qProcessing => qQueue = <<>>

Enqueued(r) == Len(qPriority) >= r

PromiseSettled(r) == Len(qPromise) >= r /\ qPromise[r] # "pending"

\* C27: every enqueued request is eventually taken from the queue and its
\* promise settled, once and with its own apiCall's outcome; no request
\* waits while processing is false, and a rejection stops nothing.
C27_EveryRequestSettled ==
    /\ []SettledOnceWithOwnOutcome
    /\ \A r \in 1..MaxQueued : Enqueued(r) ~> PromiseSettled(r)

\* C27 witness: request 1 was rejected; request 2, which waited in the queue
\* meanwhile, was then taken by the loop and settled; request 3, enqueued
\* after the queue had drained, was started by its enqueue and settled.
C27_Witness ==
    /\ Len(qPromise) = 3
    /\ qPromise[1] = "rejected"
    /\ qStartedBy[2] = "loop" /\ qPromise[2] = "fulfilled"
    /\ qStartedBy[3] = "enqueue" /\ qPromise[3] # "pending"
    /\ ~qProcessing

\* Priority p goes before priority q.
Outranks(p, q) == (p = "high" /\ q # "high") \/ (p = "normal" /\ q = "low")

\* C28: the request a step takes from the queue is outranked by no request
\* left waiting and was enqueued before every waiting request of its own
\* priority; a request leaves the flight only by settling.
C28_PriorityThenArrival ==
    [][/\ \A r \in qInFlight' \ qInFlight : \A w \in Range(qQueue') :
            /\ ~Outranks(qPriority'[w], qPriority'[r])
            /\ qPriority'[w] = qPriority'[r] => r < w
       /\ \A r \in qInFlight \ qInFlight' : qPromise'[r] # "pending"]_vars

\* C28 witness: request 3 (high) was enqueued after request 2 (low) while
\* request 1 was in flight, and the loop took it first; request 2 waits.
C28_Witness ==
    /\ Len(qPriority) = 3
    /\ qPriority[2] = "low" /\ qPriority[3] = "high"
    /\ qPromise[1] # "pending"
    /\ qInFlight = {3}
    /\ qStartedBy[3] = "loop"
    /\ qQueue = <<2>>

(***************************************************************************)
(* maliciousPackageService.deduplicatePackages                             *)
(***************************************************************************)
\* Longest record list given to deduplicatePackages.
MaxRecords == 3

\* Package names and versions are strings that come from the upstream
\* providers (advisory package names, version ranges, names parsed out of a
\* README); nothing in the collectors removes "@" from them.
PackageIds == {<<"a", "c">>, <<"a@b", "c">>, <<"a", "b@c">>}

SourceNames == {"github-advisory", "osv"}

\* The confidences the collectors assign to their records.
Confidences == {"medium", "high", "very-high"}

\* A record as the collectors push it: name, version, source, confidence.
CollectedRecords ==
    {[name |-> id[1], version |-> id[2], source |-> s, confidence |-> c] :
        id \in PackageIds, s \in SourceNames, c \in Confidences}

\* const key = `${pkg.name}@${pkg.version}`
Key(pkg) == pkg.name \o "@" \o pkg.version

\* map.has(key): the position of the entry stored under key, 0 when absent.
\* The Map keeps insertion order; an entry's key is the key of the record
\* that created it.
MapIndex(map, key) ==
    IF \E i \in 1..Len(map) : Key(map[i]) = key
    THEN CHOOSE i \in 1..Len(map) : Key(map[i]) = key
    ELSE 0

\* map.set(key, { ...pkg, sources: [pkg.source] })
InsertNew(pkg) == [sources |-> <<pkg.source>>] @@ pkg

\* if (!existing.sources.includes(pkg.source)) existing.sources.push(pkg.source)
AddSource(existing, pkg) ==
    IF Includes(existing.sources, pkg.source)
    THEN existing
    ELSE [existing EXCEPT !.sources = Append(@, pkg.source)]

\* Mutation of Escalate: the corroboration threshold is off by one.
EscalateAboveTwo(existing) ==
    IF Len(existing.sources) > 2
    THEN [existing EXCEPT !.confidence = "high"]
    ELSE existing

\* if (existing.sources.length > 1) existing.confidence = "high"
Escalate(existing) ==
    IF Len(existing.sources) > 1
    THEN [existing EXCEPT !.confidence = "high"]
    ELSE existing

\* The else branch of the loop body: the key is already in the map.
MergeInto(existing, pkg) == Escalate(AddSource(existing, pkg))

\* One iteration of `for (const pkg of packages)`.
DedupStep(map, pkg) ==
    LET i == MapIndex(map, Key(pkg))
    IN  IF i = 0
        THEN Append(map, InsertNew(pkg))
        ELSE [map EXCEPT ![i] = MergeInto(@, pkg)]

RECURSIVE DedupFold(_, _)
DedupFold(map, packages) ==
    IF packages = <<>>
    THEN map
    ELSE DedupFold(DedupStep(map, Head(packages)), Tail(packages))

\* deduplicatePackages(packages): Array.from(map.values())
deduplicatePackages(packages) == DedupFold(<<>>, packages)

\* Orderings of one multiset of records: two neighbours exchanged, or the list
\* cut into two groups that are concatenated the other way round
\* (const combined = [...github, ...osv, ...research]).
Swapped(s, i, j) == [k \in 1..Len(s) |-> IF k = i THEN s[j] ELSE IF k = j THEN s[i] ELSE s[k]]

Regrouped(s, n) == SubSeq(s, n + 1, Len(s)) \o SubSeq(s, 1, n)

Reorderings(s) ==
    {Swapped(s, i, i + 1) : i \in 1..(Len(s) - 1)}
        \cup {Regrouped(s, n) : n \in 1..(Len(s) - 1)}

DedupInit ==
    /\ dInput \in SeqsUpTo(CollectedRecords, MaxRecords)
    /\ dOut = <<>>
    /\ dAltInput = <<>>
    /\ dAlt = <<>>
    /\ dPhase = "input"
    /\ TreeIdle
    /\ QueueIdle
    /\ RetryIdle
    /\ LimiterIdle
    /\ OrchestratorIdle

\* A caller runs deduplicatePackages on the collected records.
Deduplicate ==
    /\ dPhase = "input"
    /\ dOut' = deduplicatePackages(dInput)
    /\ dPhase' = "merged"
    /\ UNCHANGED <<dInput, dAltInput, dAlt>>
    /\ UNCHANGED notDedup

\* The returned list is given to deduplicatePackages again.
Remerge ==
    /\ dPhase = "merged"
    /\ dAltInput' = dOut
    /\ dAlt' = deduplicatePackages(dOut)
    /\ dPhase' = "remerged"
    /\ UNCHANGED <<dInput, dOut>>
    /\ UNCHANGED notDedup

\* The same records are given to deduplicatePackages in another order.
DeduplicateReordered ==
    /\ dPhase = "merged"
    /\ \E p \in Reorderings(dInput) :
        /\ dAltInput' = p
        /\ dAlt' = deduplicatePackages(p)
    /\ dPhase' = "reordered"
    /\ UNCHANGED <<dInput, dOut>>
    /\ UNCHANGED notDedup

DedupNext == Deduplicate \/ Remerge \/ DeduplicateReordered

SpecDedup == DedupInit /\ [][DedupNext]_vars

(***************************************************************************)
(* Properties of deduplicatePackages                                       *)
(***************************************************************************)
\* The calls of deduplicatePackages that have returned: <<input, output>>.
DedupCalls ==
    (IF dPhase = "input" THEN {} ELSE {<<dInput, dOut>>})
        \cup (IF dPhase \in {"remerged", "reordered"} THEN {<<dAltInput, dAlt>>} ELSE {})

\* low < medium < high < very-high
Rank(c) ==
    CASE c = "low" -> 0 [] c = "medium" -> 1 [] c = "high" -> 2 [] c = "very-high" -> 3

\* The input record that created the map entry of a key.
FirstWithKey(input, key) ==
    input[CHOOSE i \in 1..Len(input) :
            /\ Key(input[i]) = key
            /\ \A j \in 1..(i - 1) : Key(input[j]) # key]

\* The distinct source names the input reports for a key.
SourcesOfKey(input, key) == {x.source : x \in {y \in Range(input) : Key(y) = key}}

\* The (name, version) identities in a record list.
IdsOf(s) == {<<r.name, r.version>> : r \in Range(s)}

SourcesOfId(input, id) ==
    {x.source : x \in {y \in Range(input) : <<y.name, y.version>> = id}}

\* What the claims compare of a result: per key, the set of sources and the
\* confidence; the order of the records is left out.
Content(s) ==
    {[key |-> Key(r), sources |-> Range(r.sources), confidence |-> r.confidence] :
        r \in Range(s)}

\* C6 (as claimed): the confidence of an output record is never lower than the
\* confidence its record had when it was first inserted.
C6_ConfidenceNeverLowered ==
    \A call \in DedupCalls :
        \A r \in Range(call[2]) :
            Rank(r.confidence) >= Rank(FirstWithKey(call[1], Key(r)).confidence)

\* C7 (as claimed): deduplicating an already deduplicated list leaves every
\* key with the same set of sources and the same confidence.
C7_Idempotent ==
    dPhase = "remerged" => Content(dAlt) = Content(dOut)

\* C8 (as claimed): two orderings of the same records give the same keys and,
\* per key, the same set of sources and the same confidence.
C8_OrderInsensitive ==
    dPhase = "reordered" => Content(dAlt) = Content(dOut)

\* C9: an output record whose key is reported by at least two distinct source
\* names has confidence high or very-high. (Records with the same name and
\* version have the same key, so this covers the reading by (name, version).)
C9_CorroboratedIsHigh ==
    \A call \in DedupCalls :
        \A r \in Range(call[2]) :
            Cardinality(SourcesOfKey(call[1], Key(r))) >= 2
                => r.confidence \in {"high", "very-high"}

\* C9 witness: a key that two sources report, each with confidence medium,
\* comes out with confidence high.
C9_Witness ==
    /\ dPhase = "merged"
    /\ \E r \in Range(dOut) :
        /\ Cardinality(SourcesOfKey(dInput, Key(r))) >= 2
        /\ \A x \in Range(dInput) : Key(x) = Key(r) => x.confidence = "medium"
        /\ r.confidence = "high"

\* C10 (as claimed): one output record per distinct (name, version) of the
\* input, none dropped and none invented, whose sources are exactly the
\* distinct source names of the input records with that name and version.
C10_OneRecordPerKey ==
    \A call \in DedupCalls :
        /\ IdsOf(call[2]) = IdsOf(call[1])
        /\ Len(call[2]) = Cardinality(IdsOf(call[1]))
        /\ \A r \in Range(call[2]) :
            /\ Range(r.sources) = SourcesOfId(call[1], <<r.name, r.version>>)
            /\ Len(r.sources) = Cardinality(Range(r.sources))

====
